---------------------------- MODULE Spec2Model ----------------------------
(***************************************************************************)
(* Receipt processor: validators.py (validate_receipt),                    *)
(* points_calculator.py (calculate_points) and app.py (process_receipt,    *)
(* get_points over the in-memory dictionary `receipts`).                    *)
(*                                                                         *)
(* Python strings are sequences of one-character strings.  Python floats   *)
(* are IEEE-754 binary64 values, computed here exactly: a finite float is  *)
(* m * 2^e with m a natural number below 2^53, kept as a sequence of       *)
(* base-2^15 limbs (least significant first) because a 53-bit significand  *)
(* does not fit an integer of TLC.  Every float operation rounds to        *)
(* nearest, ties to even, and overflows to infinity, as the interpreter's  *)
(* arithmetic does.  Subnormal results cannot arise from the operations    *)
(* of this program on two-decimal amounts and are not modelled.            *)
(***************************************************************************)
EXTENDS Integers, Sequences, FiniteSets, TLC

(***************************************************************************)
(* Natural numbers of any size: sequences of limbs, least significant      *)
(* first, without leading (high) zero limbs; <<>> is zero.                 *)
(***************************************************************************)
LimbBits == 5 * 3
Base == 2 ^ LimbBits

Limb(a, i) == IF i <= Len(a) THEN a[i] ELSE 0

Max(x, y) == IF x > y THEN x ELSE y
Min(x, y) == IF x < y THEN x ELSE y

\* the largest element of a non-empty set of integers
Highest(S) == CHOOSE x \in S : \A y \in S : y <= x

\* the smallest element of a non-empty set of integers
Lowest(S) == CHOOSE x \in S : \A y \in S : y >= x

Zeros(n) == [i \in 1..n |-> 0]

\* a without its high zero limbs
BNorm(a) ==
    LET nz == {i \in 1..Len(a) : a[i] # 0}
    IN  IF nz = {} THEN <<>> ELSE SubSeq(a, 1, Highest(nz))

RECURSIVE BFromInt(_)
BFromInt(n) == IF n = 0 THEN <<>> ELSE <<n % Base>> \o BFromInt(n \div Base)

RECURSIVE BToIntAt(_, _)
BToIntAt(a, i) == IF i > Len(a) THEN 0 ELSE a[i] + Base * BToIntAt(a, i + 1)

\* The value of a number small enough to be an integer of TLC.
BToInt(a) == BToIntAt(a, 1)

\* The carry into limb i of a sum whose limb-wise sums are s: the nearest
\* lower limb that does not just pass a carry on decides it.
CarryInto(s, i) ==
    LET deciding == {j \in 1..(i - 1) : s[j] # Base - 1}
    IN  IF deciding = {} THEN 0
        ELSE IF s[Highest(deciding)] >= Base THEN 1 ELSE 0

BAdd(a, b) ==
    LET n == Max(Len(a), Len(b)) + 1
        s == [i \in 1..n |-> Limb(a, i) + Limb(b, i)]
    IN  BNorm([i \in 1..n |-> (s[i] + CarryInto(s, i)) % Base])

BAddSmall(a, k) == BAdd(a, BFromInt(k))

\* The borrow from limb i of a difference whose limb-wise differences are d.
BorrowFrom(d, i) ==
    LET deciding == {j \in 1..(i - 1) : d[j] # 0}
    IN  IF deciding = {} THEN 0
        ELSE IF d[Highest(deciding)] < 0 THEN 1 ELSE 0

\* a - b for a >= b
BSub(a, b) ==
    LET d == [i \in 1..Len(a) |-> a[i] - Limb(b, i)]
    IN  BNorm([i \in 1..Len(a) |-> (d[i] - BorrowFrom(d, i) + Base) % Base])

\* -1, 0 or 1 as a < b, a = b or a > b
BCmp(a, b) ==
    IF Len(a) < Len(b) THEN -1
    ELSE IF Len(a) > Len(b) THEN 1
    ELSE LET differ == {i \in 1..Len(a) : a[i] # b[i]}
         IN  IF differ = {} THEN 0
             ELSE IF a[Highest(differ)] < b[Highest(differ)] THEN -1 ELSE 1

\* a * k for 0 <= k < Base
BMulSmall(a, k) ==
    BAdd([i \in 1..Len(a) |-> (a[i] * k) % Base],
         <<0>> \o [i \in 1..Len(a) |-> (a[i] * k) \div Base])

\* the sum of a * b[i] * Base^(i-1) for i in lo..hi
RECURSIVE BMulRange(_, _, _, _)
BMulRange(a, b, lo, hi) ==
    IF lo = hi THEN Zeros(lo - 1) \o BMulSmall(a, b[lo])
    ELSE LET mid == (lo + hi) \div 2
         IN  BAdd(BMulRange(a, b, lo, mid), BMulRange(a, b, mid + 1, hi))

BMul(a, b) ==
    IF a = <<>> \/ b = <<>> THEN <<>> ELSE BMulRange(a, b, 1, Len(b))

RECURSIVE BDivAt(_, _, _, _)
BDivAt(a, k, i, rem) ==
    IF i = 0 THEN [q |-> <<>>, r |-> rem]
    ELSE LET cur  == rem * Base + a[i]
             rest == BDivAt(a, k, i - 1, cur % k)
         IN  [q |-> Append(rest.q, cur \div k), r |-> rest.r]

\* quotient and remainder of a by k, 0 < k <= Base (a of a few limbs)
BDivMod(a, k) ==
    LET d == BDivAt(a, k, Len(a), 0) IN [q |-> BNorm(d.q), r |-> d.r]

RECURSIVE SmallBitLen(_)
SmallBitLen(n) == IF n = 0 THEN 0 ELSE 1 + SmallBitLen(n \div 2)

\* number of binary digits of a
BitLen(a) ==
    IF a = <<>> THEN 0 ELSE (Len(a) - 1) * LimbBits + SmallBitLen(a[Len(a)])

\* a * 2^s
BShl(a, s) ==
    IF a = <<>> THEN <<>>
    ELSE Zeros(s \div LimbBits) \o BMulSmall(a, 2 ^ (s % LimbBits))

\* floor(a / 2^s)
BShr(a, s) ==
    LET q == s \div LimbBits
        r == s % LimbBits
    IN  IF q >= Len(a) THEN <<>>
        ELSE BNorm([i \in 1..(Len(a) - q) |->
                       (a[q + i] \div (2 ^ r))
                       + (Limb(a, q + i + 1) % (2 ^ r)) * (2 ^ (LimbBits - r))])

\* binary digit of weight 2^s of a
BBit(a, s) ==
    (Limb(a, s \div LimbBits + 1) \div (2 ^ (s % LimbBits))) % 2

\* a is a multiple of 2^s
BLowZero(a, s) ==
    /\ \A i \in 1..(s \div LimbBits) : Limb(a, i) = 0
    /\ Limb(a, s \div LimbBits + 1) % (2 ^ (s % LimbBits)) = 0

RECURSIVE SmallTZ(_)
SmallTZ(n) == IF n % 2 = 1 THEN 0 ELSE 1 + SmallTZ(n \div 2)

\* number of trailing zero binary digits of a > 0
BTrailingZeros(a) ==
    LET low == Lowest({i \in 1..Len(a) : a[i] # 0})
    IN  (low - 1) * LimbBits + SmallTZ(a[low])

(***************************************************************************)
(* binary64 values (non-negative: the program never forms a negative       *)
(* float except inside abs()).                                             *)
(***************************************************************************)
MantBits == 50 + 3
MaxExp   == 2 ^ 10
GuardBits == 2 ^ 6

FZero == [k |-> "fin", m |-> <<>>, e |-> 0]
FInf  == [k |-> "inf", m |-> <<>>, e |-> 0]
FNan  == [k |-> "nan", m |-> <<>>, e |-> 0]

\* the one representation of the value m * 2^e: m odd, or zero
FCanon(m, e) ==
    IF m = <<>> THEN FZero
    ELSE LET tz == BTrailingZeros(m)
         IN  [k |-> "fin", m |-> BShr(m, tz), e |-> e + tz]

\* The float nearest to (M + f) * 2^E, ties to even, where 0 < f < 1 if
\* sticky and f = 0 otherwise (sticky is only given with M of more than
\* MantBits + 1 digits); infinity from 2^MaxExp on.
FRound(M, sticky, E) ==
    LET b == BitLen(M)
    IN  IF b <= MantBits
        THEN (IF b + E > MaxExp THEN FInf ELSE FCanon(M, E))
        ELSE LET sh       == b - MantBits
                 m0       == BShr(M, sh)
                 roundBit == BBit(M, sh - 1)
                 restZero == BLowZero(M, sh - 1) /\ ~sticky
                 up       == roundBit = 1 /\ (~restZero \/ BBit(m0, 0) = 1)
                 m        == IF up THEN BAddSmall(m0, 1) ELSE m0
             IN  IF BitLen(m) + E + sh > MaxExp THEN FInf
                 ELSE FCanon(m, E + sh)

\* The float nearest to N / d, for a natural number N and 0 < d <= 100.
\* N is first brought to GuardBits binary digits (the digits dropped from a
\* longer N only matter as being zero or not), so the quotient keeps more
\* digits than a float has.
FFromRatio(N, d) ==
    IF N = <<>> THEN FZero
    ELSE LET b  == BitLen(N)
             up == IF b < GuardBits THEN GuardBits - b ELSE 0
             dn == IF b > GuardBits THEN b - GuardBits ELSE 0
             qr == BDivMod(IF dn > 0 THEN BShr(N, dn) ELSE BShl(N, up), d)
         IN  FRound(qr.q, qr.r # 0 \/ ~BLowZero(N, dn), dn - up)

\* float + float
FAdd(a, b) ==
    IF a.k = "nan" \/ b.k = "nan" THEN FNan
    ELSE IF a.k = "inf" \/ b.k = "inf" THEN FInf
    ELSE LET e == Min(a.e, b.e)
         IN  FRound(BAdd(BShl(a.m, a.e - e), BShl(b.m, b.e - e)), FALSE, e)

\* abs(a - b)
FAbsDiff(a, b) ==
    IF a.k = "nan" \/ b.k = "nan" THEN FNan
    ELSE IF a.k = "inf" /\ b.k = "inf" THEN FNan
    ELSE IF a.k = "inf" \/ b.k = "inf" THEN FInf
    ELSE LET e == Min(a.e, b.e)
             x == BShl(a.m, a.e - e)
             y == BShl(b.m, b.e - e)
         IN  FRound(IF BCmp(x, y) >= 0 THEN BSub(x, y) ELSE BSub(y, x), FALSE, e)

\* float * float
FMul(a, b) ==
    IF a.k = "nan" \/ b.k = "nan" THEN FNan
    ELSE IF a.k = "inf" \/ b.k = "inf"
         THEN (IF a = FZero \/ b = FZero THEN FNan ELSE FInf)
    ELSE FRound(BMul(a.m, b.m), FALSE, a.e + b.e)

\* a > b
FGt(a, b) ==
    IF a.k = "nan" \/ b.k = "nan" THEN FALSE
    ELSE IF a.k = "inf" THEN b.k # "inf"
    ELSE IF b.k = "inf" THEN FALSE
    ELSE LET e == Min(a.e, b.e)
         IN  BCmp(BShl(a.m, a.e - e), BShl(b.m, b.e - e)) > 0

\* a is a whole multiple of 2^p (finite a)
FMultipleOfPow2(a, p) == a.e >= p \/ BLowZero(a.m, p - a.e)

\* float.is_integer()
FIsInteger(a) == a.k = "fin" /\ FMultipleOfPow2(a, 0)

\* the integer part of a finite float, as a number
FFloor(a) == IF a.e >= 0 THEN BShl(a.m, a.e) ELSE BShr(a.m, 0 - a.e)


(***************************************************************************)
(* Characters and strings.  A Python str is a sequence of characters.  A   *)
(* character that a TLA+ string can write is the string of that one        *)
(* character; any other character is named by its code point, "U+00E9".    *)
(***************************************************************************)
DigitOrder == <<"0", "1", "2", "3", "4", "5", "6", "7", "8", "9">>

\* the characters [0-9]
AsciiDigits == {DigitOrder[i] : i \in 1..Len(DigitOrder)}

Upper == {"A", "B", "C", "D", "E", "F", "G", "H", "I", "J", "K", "L", "M",
          "N", "O", "P", "Q", "R", "S", "T", "U", "V", "W", "X", "Y", "Z"}
Lower == {"a", "b", "c", "d", "e", "f", "g", "h", "i", "j", "k", "l", "m",
          "n", "o", "p", "q", "r", "s", "t", "u", "v", "w", "x", "y", "z"}

\* the named characters of the request bodies
Names ==
    << "U+0000", "U+0001", "U+0002", "U+0003", "U+0004", "U+0005", "U+0006",
       "U+0007", "U+0008", "U+000B", "U+000E", "U+000F", "U+0010", "U+0011",
       "U+0012", "U+0013", "U+0014", "U+0015", "U+0016", "U+0017", "U+0018",
       "U+0019", "U+001A", "U+001B", "U+001C", "U+001D", "U+001E", "U+001F",
       "U+007F", "U+0080", "U+0081", "U+0082", "U+0083", "U+0084", "U+0085",
       "U+0086", "U+0087", "U+0088", "U+0089", "U+008A", "U+008B", "U+008C",
       "U+008D", "U+008E", "U+008F", "U+0090", "U+0091", "U+0092", "U+0093",
       "U+0094", "U+0095", "U+0096", "U+0097", "U+0098", "U+0099", "U+009A",
       "U+009B", "U+009C", "U+009D", "U+009E", "U+009F", "U+00A0", "U+00A1",
       "U+00A2", "U+00A3", "U+00A4", "U+00A5", "U+00A6", "U+00A7", "U+00A8",
       "U+00A9", "U+00AA", "U+00AB", "U+00AC", "U+00AD", "U+00AE", "U+00AF",
       "U+00B0", "U+00B1", "U+00B2", "U+00B3", "U+00B4", "U+00B5", "U+00B6",
       "U+00B7", "U+00B8", "U+00B9", "U+00BA", "U+00BB", "U+00BC", "U+00BD",
       "U+00BE", "U+00BF", "U+00C0", "U+00C1", "U+00C2", "U+00C3", "U+00C4",
       "U+00C5", "U+00C6", "U+00C7", "U+00C8", "U+00C9", "U+00CA", "U+00CB",
       "U+00CC", "U+00CD", "U+00CE", "U+00CF", "U+00D0", "U+00D1", "U+00D2",
       "U+00D3", "U+00D4", "U+00D5", "U+00D6", "U+00D7", "U+00D8", "U+00D9",
       "U+00DA", "U+00DB", "U+00DC", "U+00DD", "U+00DE", "U+00DF", "U+00E0",
       "U+00E1", "U+00E2", "U+00E3", "U+00E4", "U+00E5", "U+00E6", "U+00E7",
       "U+00E8", "U+00E9", "U+00EA", "U+00EB", "U+00EC", "U+00ED", "U+00EE",
       "U+00EF", "U+00F0", "U+00F1", "U+00F2", "U+00F3", "U+00F4", "U+00F5",
       "U+00F6", "U+00F7", "U+00F8", "U+00F9", "U+00FA", "U+00FB", "U+00FC",
       "U+00FD", "U+00FE", "U+00FF", "U+03B1", "U+03B2", "U+03B3", "U+03B4",
       "U+03B5", "U+03B6", "U+03B7", "U+03B8", "U+03B9", "U+03BA", "U+03BB",
       "U+03BC", "U+03BD", "U+03BE", "U+03BF", "U+03C0", "U+03C1", "U+03C2",
       "U+03C3", "U+03C4", "U+03C5", "U+03C6", "U+03C7", "U+03C8", "U+03C9",
       "U+0430", "U+0431", "U+0432", "U+0433", "U+0434", "U+0435", "U+0436",
       "U+0437", "U+0438", "U+0439", "U+043A", "U+043B", "U+043C", "U+043D",
       "U+043E", "U+043F", "U+0440", "U+0441", "U+0442", "U+0443", "U+0444",
       "U+0445", "U+0446", "U+0447", "U+0448", "U+0449", "U+044A", "U+044B",
       "U+044C", "U+044D", "U+044E", "U+044F", "U+0660", "U+0661", "U+0662",
       "U+0663", "U+0664", "U+0665", "U+0666", "U+0667", "U+0668", "U+0669",
       "U+06F0", "U+06F1", "U+06F2", "U+06F3", "U+06F4", "U+06F5", "U+06F6",
       "U+06F7", "U+06F8", "U+06F9", "U+0966", "U+0967", "U+0968", "U+0969",
       "U+096A", "U+096B", "U+096C", "U+096D", "U+096E", "U+096F", "U+1680",
       "U+2000", "U+2001", "U+2002", "U+2003", "U+2004", "U+2005", "U+2006",
       "U+2007", "U+2008", "U+2009", "U+200A", "U+200B", "U+2028", "U+2029",
       "U+202F", "U+205F", "U+2060", "U+20AC", "U+2153", "U+2460", "U+3000",
       "U+4E2D", "U+65E5", "U+672C", "U+FEFF", "U+FF10", "U+FF11", "U+FF12",
       "U+FF13", "U+FF14", "U+FF15", "U+FF16", "U+FF17", "U+FF18", "U+FF19",
       "U+1D7CE", "U+1D7D9", "U+1F600", "U+10FFFF" >>

\* their code points, in the order of Names
CodePoints ==
    << 0, 1, 2, 3, 4, 5, 6, 7, 8, 11, 14, 15, 16, 17, 18, 19, 20, 21, 22, 23,
       24, 25, 26, 27, 28, 29, 30, 31, 127, 128, 129, 130, 131, 132, 133,
       134, 135, 136, 137, 138, 139, 140, 141, 142, 143, 144, 145, 146, 147,
       148, 149, 150, 151, 152, 153, 154, 155, 156, 157, 158, 159, 160, 161,
       162, 163, 164, 165, 166, 167, 168, 169, 170, 171, 172, 173, 174, 175,
       176, 177, 178, 179, 180, 181, 182, 183, 184, 185, 186, 187, 188, 189,
       190, 191, 192, 193, 194, 195, 196, 197, 198, 199, 200, 201, 202, 203,
       204, 205, 206, 207, 208, 209, 210, 211, 212, 213, 214, 215, 216, 217,
       218, 219, 220, 221, 222, 223, 224, 225, 226, 227, 228, 229, 230, 231,
       232, 233, 234, 235, 236, 237, 238, 239, 240, 241, 242, 243, 244, 245,
       246, 247, 248, 249, 250, 251, 252, 253, 254, 255, 945, 946, 947, 948,
       949, 950, 951, 952, 953, 954, 955, 956, 957, 958, 959, 960, 961, 962,
       963, 964, 965, 966, 967, 968, 969, 1072, 1073, 1074, 1075, 1076, 1077,
       1078, 1079, 1080, 1081, 1082, 1083, 1084, 1085, 1086, 1087, 1088,
       1089, 1090, 1091, 1092, 1093, 1094, 1095, 1096, 1097, 1098, 1099,
       1100, 1101, 1102, 1103, 1632, 1633, 1634, 1635, 1636, 1637, 1638,
       1639, 1640, 1641, 1776, 1777, 1778, 1779, 1780, 1781, 1782, 1783,
       1784, 1785, 2406, 2407, 2408, 2409, 2410, 2411, 2412, 2413, 2414,
       2415, 5760, 8192, 8193, 8194, 8195, 8196, 8197, 8198, 8199, 8200,
       8201, 8202, 8203, 8232, 8233, 8239, 8287, 8288, 8364, 8531, 9312,
       12288, 20013, 26085, 26412, 65279, 65296, 65297, 65298, 65299, 65300,
       65301, 65302, 65303, 65304, 65305, 120782, 120793, 128512, 1114111 >>

Named == {Names[i] : i \in 1..Len(Names)}

\* ord(c) of a named character
ord(c) == CodePoints[CHOOSE i \in 1..Len(Names) : Names[i] = c]

\* the code points from 128 of the characters c with c.isalnum(): the
\* first and the last of every range of the Unicode database (version 14.0.0)
AlnumRanges ==
    << 170, 170, 178, 179, 181, 181, 185, 186, 188, 190, 192, 214, 216, 246,
       248, 705, 710, 721, 736, 740, 748, 748, 750, 750, 880, 884, 886, 887,
       890, 893, 895, 895, 902, 902, 904, 906, 908, 908, 910, 929, 931, 1013,
       1015, 1153, 1162, 1327, 1329, 1366, 1369, 1369, 1376, 1416, 1488,
       1514, 1519, 1522, 1568, 1610, 1632, 1641, 1646, 1647, 1649, 1747,
       1749, 1749, 1765, 1766, 1774, 1788, 1791, 1791, 1808, 1808, 1810,
       1839, 1869, 1957, 1969, 1969, 1984, 2026, 2036, 2037, 2042, 2042,
       2048, 2069, 2074, 2074, 2084, 2084, 2088, 2088, 2112, 2136, 2144,
       2154, 2160, 2183, 2185, 2190, 2208, 2249, 2308, 2361, 2365, 2365,
       2384, 2384, 2392, 2401, 2406, 2415, 2417, 2432, 2437, 2444, 2447,
       2448, 2451, 2472, 2474, 2480, 2482, 2482, 2486, 2489, 2493, 2493,
       2510, 2510, 2524, 2525, 2527, 2529, 2534, 2545, 2548, 2553, 2556,
       2556, 2565, 2570, 2575, 2576, 2579, 2600, 2602, 2608, 2610, 2611,
       2613, 2614, 2616, 2617, 2649, 2652, 2654, 2654, 2662, 2671, 2674,
       2676, 2693, 2701, 2703, 2705, 2707, 2728, 2730, 2736, 2738, 2739,
       2741, 2745, 2749, 2749, 2768, 2768, 2784, 2785, 2790, 2799, 2809,
       2809, 2821, 2828, 2831, 2832, 2835, 2856, 2858, 2864, 2866, 2867,
       2869, 2873, 2877, 2877, 2908, 2909, 2911, 2913, 2918, 2927, 2929,
       2935, 2947, 2947, 2949, 2954, 2958, 2960, 2962, 2965, 2969, 2970,
       2972, 2972, 2974, 2975, 2979, 2980, 2984, 2986, 2990, 3001, 3024,
       3024, 3046, 3058, 3077, 3084, 3086, 3088, 3090, 3112, 3114, 3129,
       3133, 3133, 3160, 3162, 3165, 3165, 3168, 3169, 3174, 3183, 3192,
       3198, 3200, 3200, 3205, 3212, 3214, 3216, 3218, 3240, 3242, 3251,
       3253, 3257, 3261, 3261, 3293, 3294, 3296, 3297, 3302, 3311, 3313,
       3314, 3332, 3340, 3342, 3344, 3346, 3386, 3389, 3389, 3406, 3406,
       3412, 3414, 3416, 3425, 3430, 3448, 3450, 3455, 3461, 3478, 3482,
       3505, 3507, 3515, 3517, 3517, 3520, 3526, 3558, 3567, 3585, 3632,
       3634, 3635, 3648, 3654, 3664, 3673, 3713, 3714, 3716, 3716, 3718,
       3722, 3724, 3747, 3749, 3749, 3751, 3760, 3762, 3763, 3773, 3773,
       3776, 3780, 3782, 3782, 3792, 3801, 3804, 3807, 3840, 3840, 3872,
       3891, 3904, 3911, 3913, 3948, 3976, 3980, 4096, 4138, 4159, 4169,
       4176, 4181, 4186, 4189, 4193, 4193, 4197, 4198, 4206, 4208, 4213,
       4225, 4238, 4238, 4240, 4249, 4256, 4293, 4295, 4295, 4301, 4301,
       4304, 4346, 4348, 4680, 4682, 4685, 4688, 4694, 4696, 4696, 4698,
       4701, 4704, 4744, 4746, 4749, 4752, 4784, 4786, 4789, 4792, 4798,
       4800, 4800, 4802, 4805, 4808, 4822, 4824, 4880, 4882, 4885, 4888,
       4954, 4969, 4988, 4992, 5007, 5024, 5109, 5112, 5117, 5121, 5740,
       5743, 5759, 5761, 5786, 5792, 5866, 5870, 5880, 5888, 5905, 5919,
       5937, 5952, 5969, 5984, 5996, 5998, 6000, 6016, 6067, 6103, 6103,
       6108, 6108, 6112, 6121, 6128, 6137, 6160, 6169, 6176, 6264, 6272,
       6276, 6279, 6312, 6314, 6314, 6320, 6389, 6400, 6430, 6470, 6509,
       6512, 6516, 6528, 6571, 6576, 6601, 6608, 6618, 6656, 6678, 6688,
       6740, 6784, 6793, 6800, 6809, 6823, 6823, 6917, 6963, 6981, 6988,
       6992, 7001, 7043, 7072, 7086, 7141, 7168, 7203, 7232, 7241, 7245,
       7293, 7296, 7304, 7312, 7354, 7357, 7359, 7401, 7404, 7406, 7411,
       7413, 7414, 7418, 7418, 7424, 7615, 7680, 7957, 7960, 7965, 7968,
       8005, 8008, 8013, 8016, 8023, 8025, 8025, 8027, 8027, 8029, 8029,
       8031, 8061, 8064, 8116, 8118, 8124, 8126, 8126, 8130, 8132, 8134,
       8140, 8144, 8147, 8150, 8155, 8160, 8172, 8178, 8180, 8182, 8188,
       8304, 8305, 8308, 8313, 8319, 8329, 8336, 8348, 8450, 8450, 8455,
       8455, 8458, 8467, 8469, 8469, 8473, 8477, 8484, 8484, 8486, 8486,
       8488, 8488, 8490, 8493, 8495, 8505, 8508, 8511, 8517, 8521, 8526,
       8526, 8528, 8585, 9312, 9371, 9450, 9471, 10102, 10131, 11264, 11492,
       11499, 11502, 11506, 11507, 11517, 11517, 11520, 11557, 11559, 11559,
       11565, 11565, 11568, 11623, 11631, 11631, 11648, 11670, 11680, 11686,
       11688, 11694, 11696, 11702, 11704, 11710, 11712, 11718, 11720, 11726,
       11728, 11734, 11736, 11742, 11823, 11823, 12293, 12295, 12321, 12329,
       12337, 12341, 12344, 12348, 12353, 12438, 12445, 12447, 12449, 12538,
       12540, 12543, 12549, 12591, 12593, 12686, 12690, 12693, 12704, 12735,
       12784, 12799, 12832, 12841, 12872, 12879, 12881, 12895, 12928, 12937,
       12977, 12991, 13312, 19903, 19968, 42124, 42192, 42237, 42240, 42508,
       42512, 42539, 42560, 42606, 42623, 42653, 42656, 42735, 42775, 42783,
       42786, 42888, 42891, 42954, 42960, 42961, 42963, 42963, 42965, 42969,
       42994, 43009, 43011, 43013, 43015, 43018, 43020, 43042, 43056, 43061,
       43072, 43123, 43138, 43187, 43216, 43225, 43250, 43255, 43259, 43259,
       43261, 43262, 43264, 43301, 43312, 43334, 43360, 43388, 43396, 43442,
       43471, 43481, 43488, 43492, 43494, 43518, 43520, 43560, 43584, 43586,
       43588, 43595, 43600, 43609, 43616, 43638, 43642, 43642, 43646, 43695,
       43697, 43697, 43701, 43702, 43705, 43709, 43712, 43712, 43714, 43714,
       43739, 43741, 43744, 43754, 43762, 43764, 43777, 43782, 43785, 43790,
       43793, 43798, 43808, 43814, 43816, 43822, 43824, 43866, 43868, 43881,
       43888, 44002, 44016, 44025, 44032, 55203, 55216, 55238, 55243, 55291,
       63744, 64109, 64112, 64217, 64256, 64262, 64275, 64279, 64285, 64285,
       64287, 64296, 64298, 64310, 64312, 64316, 64318, 64318, 64320, 64321,
       64323, 64324, 64326, 64433, 64467, 64829, 64848, 64911, 64914, 64967,
       65008, 65019, 65136, 65140, 65142, 65276, 65296, 65305, 65313, 65338,
       65345, 65370, 65382, 65470, 65474, 65479, 65482, 65487, 65490, 65495,
       65498, 65500, 65536, 65547, 65549, 65574, 65576, 65594, 65596, 65597,
       65599, 65613, 65616, 65629, 65664, 65786, 65799, 65843, 65856, 65912,
       65930, 65931, 66176, 66204, 66208, 66256, 66273, 66299, 66304, 66339,
       66349, 66378, 66384, 66421, 66432, 66461, 66464, 66499, 66504, 66511,
       66513, 66517, 66560, 66717, 66720, 66729, 66736, 66771, 66776, 66811,
       66816, 66855, 66864, 66915, 66928, 66938, 66940, 66954, 66956, 66962,
       66964, 66965, 66967, 66977, 66979, 66993, 66995, 67001, 67003, 67004,
       67072, 67382, 67392, 67413, 67424, 67431, 67456, 67461, 67463, 67504,
       67506, 67514, 67584, 67589, 67592, 67592, 67594, 67637, 67639, 67640,
       67644, 67644, 67647, 67669, 67672, 67702, 67705, 67742, 67751, 67759,
       67808, 67826, 67828, 67829, 67835, 67867, 67872, 67897, 67968, 68023,
       68028, 68047, 68050, 68096, 68112, 68115, 68117, 68119, 68121, 68149,
       68160, 68168, 68192, 68222, 68224, 68255, 68288, 68295, 68297, 68324,
       68331, 68335, 68352, 68405, 68416, 68437, 68440, 68466, 68472, 68497,
       68521, 68527, 68608, 68680, 68736, 68786, 68800, 68850, 68858, 68899,
       68912, 68921, 69216, 69246, 69248, 69289, 69296, 69297, 69376, 69415,
       69424, 69445, 69457, 69460, 69488, 69505, 69552, 69579, 69600, 69622,
       69635, 69687, 69714, 69743, 69745, 69746, 69749, 69749, 69763, 69807,
       69840, 69864, 69872, 69881, 69891, 69926, 69942, 69951, 69956, 69956,
       69959, 69959, 69968, 70002, 70006, 70006, 70019, 70066, 70081, 70084,
       70096, 70106, 70108, 70108, 70113, 70132, 70144, 70161, 70163, 70187,
       70272, 70278, 70280, 70280, 70282, 70285, 70287, 70301, 70303, 70312,
       70320, 70366, 70384, 70393, 70405, 70412, 70415, 70416, 70419, 70440,
       70442, 70448, 70450, 70451, 70453, 70457, 70461, 70461, 70480, 70480,
       70493, 70497, 70656, 70708, 70727, 70730, 70736, 70745, 70751, 70753,
       70784, 70831, 70852, 70853, 70855, 70855, 70864, 70873, 71040, 71086,
       71128, 71131, 71168, 71215, 71236, 71236, 71248, 71257, 71296, 71338,
       71352, 71352, 71360, 71369, 71424, 71450, 71472, 71483, 71488, 71494,
       71680, 71723, 71840, 71922, 71935, 71942, 71945, 71945, 71948, 71955,
       71957, 71958, 71960, 71983, 71999, 71999, 72001, 72001, 72016, 72025,
       72096, 72103, 72106, 72144, 72161, 72161, 72163, 72163, 72192, 72192,
       72203, 72242, 72250, 72250, 72272, 72272, 72284, 72329, 72349, 72349,
       72368, 72440, 72704, 72712, 72714, 72750, 72768, 72768, 72784, 72812,
       72818, 72847, 72960, 72966, 72968, 72969, 72971, 73008, 73030, 73030,
       73040, 73049, 73056, 73061, 73063, 73064, 73066, 73097, 73112, 73112,
       73120, 73129, 73440, 73458, 73648, 73648, 73664, 73684, 73728, 74649,
       74752, 74862, 74880, 75075, 77712, 77808, 77824, 78894, 82944, 83526,
       92160, 92728, 92736, 92766, 92768, 92777, 92784, 92862, 92864, 92873,
       92880, 92909, 92928, 92975, 92992, 92995, 93008, 93017, 93019, 93025,
       93027, 93047, 93053, 93071, 93760, 93846, 93952, 94026, 94032, 94032,
       94099, 94111, 94176, 94177, 94179, 94179, 94208, 100343, 100352,
       101589, 101632, 101640, 110576, 110579, 110581, 110587, 110589,
       110590, 110592, 110882, 110928, 110930, 110948, 110951, 110960,
       111355, 113664, 113770, 113776, 113788, 113792, 113800, 113808,
       113817, 119520, 119539, 119648, 119672, 119808, 119892, 119894,
       119964, 119966, 119967, 119970, 119970, 119973, 119974, 119977,
       119980, 119982, 119993, 119995, 119995, 119997, 120003, 120005,
       120069, 120071, 120074, 120077, 120084, 120086, 120092, 120094,
       120121, 120123, 120126, 120128, 120132, 120134, 120134, 120138,
       120144, 120146, 120485, 120488, 120512, 120514, 120538, 120540,
       120570, 120572, 120596, 120598, 120628, 120630, 120654, 120656,
       120686, 120688, 120712, 120714, 120744, 120746, 120770, 120772,
       120779, 120782, 120831, 122624, 122654, 123136, 123180, 123191,
       123197, 123200, 123209, 123214, 123214, 123536, 123565, 123584,
       123627, 123632, 123641, 124896, 124902, 124904, 124907, 124909,
       124910, 124912, 124926, 124928, 125124, 125127, 125135, 125184,
       125251, 125259, 125259, 125264, 125273, 126065, 126123, 126125,
       126127, 126129, 126132, 126209, 126253, 126255, 126269, 126464,
       126467, 126469, 126495, 126497, 126498, 126500, 126500, 126503,
       126503, 126505, 126514, 126516, 126519, 126521, 126521, 126523,
       126523, 126530, 126530, 126535, 126535, 126537, 126537, 126539,
       126539, 126541, 126543, 126545, 126546, 126548, 126548, 126551,
       126551, 126553, 126553, 126555, 126555, 126557, 126557, 126559,
       126559, 126561, 126562, 126564, 126564, 126567, 126570, 126572,
       126578, 126580, 126583, 126585, 126588, 126590, 126590, 126592,
       126601, 126603, 126619, 126625, 126627, 126629, 126633, 126635,
       126651, 127232, 127244, 130032, 130041, 131072, 173791, 173824,
       177976, 177984, 178205, 178208, 183969, 183984, 191456, 194560,
       195101, 196608, 201546 >>

\* the code points from 128 of the decimal digits, the characters \d
\* matches and int() and float() read: ranges of ten, from the digit zero
DecimalRanges ==
    << 1632, 1641, 1776, 1785, 1984, 1993, 2406, 2415, 2534, 2543, 2662,
       2671, 2790, 2799, 2918, 2927, 3046, 3055, 3174, 3183, 3302, 3311,
       3430, 3439, 3558, 3567, 3664, 3673, 3792, 3801, 3872, 3881, 4160,
       4169, 4240, 4249, 6112, 6121, 6160, 6169, 6470, 6479, 6608, 6617,
       6784, 6793, 6800, 6809, 6992, 7001, 7088, 7097, 7232, 7241, 7248,
       7257, 42528, 42537, 43216, 43225, 43264, 43273, 43472, 43481, 43504,
       43513, 43600, 43609, 44016, 44025, 65296, 65305, 66720, 66729, 68912,
       68921, 69734, 69743, 69872, 69881, 69942, 69951, 70096, 70105, 70384,
       70393, 70736, 70745, 70864, 70873, 71248, 71257, 71360, 71369, 71472,
       71481, 71904, 71913, 72016, 72025, 72784, 72793, 73040, 73049, 73120,
       73129, 92768, 92777, 92864, 92873, 93008, 93017, 120782, 120831,
       123200, 123209, 123632, 123641, 125264, 125273, 130032, 130041 >>

\* the code points of the white space, the characters c with c.isspace()
SpaceRanges ==
    << 9, 13, 28, 32, 133, 133, 160, 160, 5760, 5760, 8192, 8202, 8232, 8233,
       8239, 8239, 8287, 8287, 12288, 12288 >>

\* the ranges that hold the code point n
RangesOf(n, ranges) ==
    {i \in 1..(Len(ranges) \div 2) :
        ranges[2 * i - 1] <= n /\ n <= ranges[2 * i]}

InRanges(n, ranges) == RangesOf(n, ranges) # {}

\* the regular-expression class \d: the decimal digits
Digits == AsciiDigits \cup {c \in Named : InRanges(ord(c), DecimalRanges)}

\* the value of a decimal digit
DigitVal(c) ==
    IF c \in AsciiDigits
    THEN (CHOOSE i \in 1..Len(DigitOrder) : DigitOrder[i] = c) - 1
    ELSE LET r == CHOOSE i \in RangesOf(ord(c), DecimalRanges) : TRUE
         IN  (ord(c) - DecimalRanges[2 * r - 1]) % 10

\* the characters c with c.isalnum()
Alnum ==
    Upper \cup Lower \cup AsciiDigits
        \cup {c \in Named : InRanges(ord(c), AlnumRanges)}

\* the regular-expression class \w
Word == Alnum \cup {"_"}

\* the regular-expression class \s, and the characters str.strip() removes
Space ==
    {" ", "\t", "\n", "\r", "\f"}
        \cup {c \in Named : InRanges(ord(c), SpaceRanges)}

IsSpace(c) == c \in Space

\* every character of s is in the class
AllIn(s, class) == \A i \in 1..Len(s) : s[i] \in class

\* int(s) of a short string of digits
RECURSIVE IntOf(_)
IntOf(s) ==
    IF s = <<>> THEN 0
    ELSE 10 * IntOf(SubSeq(s, 1, Len(s) - 1)) + DigitVal(s[Len(s)])

\* 10^k
RECURSIVE Pow10(_)
Pow10(k) ==
    IF k = 0 THEN <<1>>
    ELSE LET h == Pow10(k \div 2)
         IN  IF k % 2 = 0 THEN BMul(h, h) ELSE BMulSmall(BMul(h, h), 10)

\* the natural number a string of digits writes
RECURSIVE BigOf(_)
BigOf(s) ==
    IF Len(s) <= 4 THEN BFromInt(IntOf(s))
    ELSE LET h    == Len(s) \div 2
             high == BigOf(SubSeq(s, 1, h))
             low  == BigOf(SubSeq(s, h + 1, Len(s)))
         IN  BAdd(BMul(high, Pow10(Len(s) - h)), low)

RECURSIVE LStrip(_)
LStrip(s) == IF s # <<>> /\ IsSpace(s[1]) THEN LStrip(Tail(s)) ELSE s

RECURSIVE RStrip(_)
RStrip(s) ==
    IF s # <<>> /\ IsSpace(s[Len(s)]) THEN RStrip(SubSeq(s, 1, Len(s) - 1))
    ELSE s

\* str.strip()
Strip(s) == RStrip(LStrip(s))

\* needle in hay, for two strings
IsSubstring(needle, hay) ==
    \E i \in 0..(Len(hay) - Len(needle)) :
        SubSeq(hay, i + 1, i + Len(needle)) = needle

(***************************************************************************)
(* JSON values as request.get_json() returns them, tagged with their       *)
(* Python type, and the outcome of a call: a returned value or a raised    *)
(* exception.                                                              *)
(***************************************************************************)
JStr(s)  == [t |-> "str", v |-> s]
JNum(n)  == [t |-> "num", v |-> n]
JNull    == [t |-> "null", v |-> 0]
JList(l) == [t |-> "list", v |-> l]
JDict(d) == [t |-> "dict", v |-> d]

Return(v) == [exc |-> "none", msg |-> "", args |-> <<>>, val |-> v]
Raise(exc, msg, args) == [exc |-> exc, msg |-> msg, args |-> args, val |-> 0]
Raised(r) == r.exc # "none"

\* the dictionary keys as Python strings, for `key in <str>`
KeyChars(key) ==
    CASE key = "retailer" -> <<"r", "e", "t", "a", "i", "l", "e", "r">>
      [] key = "purchaseDate" ->
            <<"p", "u", "r", "c", "h", "a", "s", "e", "D", "a", "t", "e">>
      [] key = "purchaseTime" ->
            <<"p", "u", "r", "c", "h", "a", "s", "e", "T", "i", "m", "e">>
      [] key = "items" -> <<"i", "t", "e", "m", "s">>
      [] key = "total" -> <<"t", "o", "t", "a", "l">>
      [] key = "shortDescription" ->
            <<"s", "h", "o", "r", "t", "D", "e", "s", "c", "r", "i", "p",
              "t", "i", "o", "n">>
      [] key = "price" -> <<"p", "r", "i", "c", "e">>

\* `key in x`: a dictionary's keys, a list's elements, a string's substrings;
\* a TypeError for a value that is not iterable
Contains(x, key) ==
    CASE x.t = "dict" -> Return(key \in DOMAIN x.v)
      [] x.t = "list" ->
            Return(\E i \in 1..Len(x.v) :
                       x.v[i].t = "str" /\ x.v[i].v = KeyChars(key))
      [] x.t = "str"  -> Return(IsSubstring(KeyChars(key), x.v))
      [] OTHER -> Raise("TypeError", "argument is not iterable", <<>>)

\* x[key] for a string key
GetItem(x, key) ==
    CASE x.t = "dict" ->
            IF key \in DOMAIN x.v THEN Return(x.v[key])
            ELSE Raise("KeyError", "", <<key>>)
      [] OTHER -> Raise("TypeError", "indices must be integers", <<>>)

(***************************************************************************)
(* re.match with the patterns of validators.py.  `$` also matches before   *)
(* a final newline.                                                        *)
(***************************************************************************)
RetailerChars == Word \cup Space \cup {"-", "&"}
DescriptionChars == Word \cup Space \cup {"-"}

\* s without the final newline `$` may skip
BeforeDollar(s) ==
    IF s # <<>> /\ s[Len(s)] = "\n" THEN SubSeq(s, 1, Len(s) - 1) ELSE s

\* ^[class]+$
MatchesClassPlus(s, class) ==
    \/ s # <<>> /\ AllIn(s, class)
    \/ BeforeDollar(s) # <<>> /\ AllIn(BeforeDollar(s), class)

\* ^\d+\.\d{2}$ on exactly s
IsAmount(s) ==
    /\ Len(s) >= 4
    /\ s[Len(s) - 2] = "."
    /\ AllIn(SubSeq(s, 1, Len(s) - 3), Digits)
    /\ AllIn(SubSeq(s, Len(s) - 1, Len(s)), Digits)

\* ^\d+\.\d{2}$
MatchesAmount(s) == IsAmount(s) \/ IsAmount(BeforeDollar(s))

\* float(s) for a string the amount pattern matches (surrounding white
\* space is ignored by float): the float nearest to the written amount
PyFloat(s) ==
    LET d == Strip(s)
    IN  IF IsAmount(d)
        THEN Return(FFromRatio(
                 BigOf(SubSeq(d, 1, Len(d) - 3) \o SubSeq(d, Len(d) - 1, Len(d))),
                 100))
        ELSE Raise("ValueError", "could not convert string to float", <<>>)

(***************************************************************************)
(* datetime.strptime with the formats "%Y-%m-%d" and "%H:%M".              *)
(***************************************************************************)
\* %m: 1[0-2]|0[1-9]|[1-9]
IsMonthToken(s) ==
    \/ Len(s) = 2 /\ s[1] = "1" /\ s[2] \in {"0", "1", "2"}
    \/ Len(s) = 2 /\ s[1] = "0" /\ s[2] \in AsciiDigits \ {"0"}
    \/ Len(s) = 1 /\ s[1] \in AsciiDigits \ {"0"}

\* %d: 3[01]|[12]\d|0[1-9]|[1-9]| [1-9]
IsDayToken(s) ==
    \/ Len(s) = 2 /\ s[1] = "3" /\ s[2] \in {"0", "1"}
    \/ Len(s) = 2 /\ s[1] \in {"1", "2"} /\ s[2] \in Digits
    \/ Len(s) = 2 /\ s[1] = "0" /\ s[2] \in AsciiDigits \ {"0"}
    \/ Len(s) = 1 /\ s[1] \in AsciiDigits \ {"0"}
    \/ Len(s) = 2 /\ s[1] = " " /\ s[2] \in AsciiDigits \ {"0"}

\* %H: 2[0-3]|[0-1]\d|\d
IsHourToken(s) ==
    \/ Len(s) = 2 /\ s[1] = "2" /\ s[2] \in {"0", "1", "2", "3"}
    \/ Len(s) = 2 /\ s[1] \in {"0", "1"} /\ s[2] \in Digits
    \/ Len(s) = 1 /\ s[1] \in Digits

\* %M: [0-5]\d|\d
IsMinuteToken(s) ==
    \/ Len(s) = 2 /\ s[1] \in {"0", "1", "2", "3", "4", "5"} /\ s[2] \in Digits
    \/ Len(s) = 1 /\ s[1] \in Digits

IsLeap(y) == y % 4 = 0 /\ (y % 100 # 0 \/ y % 400 = 0)

DaysInMonth(y, m) ==
    IF m = 2 THEN (IF IsLeap(y) THEN 29 ELSE 28)
    ELSE IF m \in {4, 6, 9, 11} THEN 30
    ELSE 31

\* positions of the character c in s
Positions(s, c) == {i \in 1..Len(s) : s[i] = c}

\* datetime.strptime(x, "%Y-%m-%d"): the date's year, month and day
StrptimeDate(x) ==
    IF x.t # "str" THEN Raise("TypeError", "strptime() argument 1 must be str", <<>>)
    ELSE LET s  == x.v
             ok == /\ Len(s) >= 8
                   /\ AllIn(SubSeq(s, 1, 4), Digits)
                   /\ s[5] = "-"
                   /\ \E j \in {7, 8} :
                        /\ j < Len(s)
                        /\ s[j] = "-"
                        /\ IsMonthToken(SubSeq(s, 6, j - 1))
                        /\ IsDayToken(SubSeq(s, j + 1, Len(s)))
         IN  IF ~ok THEN Raise("ValueError", "does not match format", <<>>)
             ELSE LET j == CHOOSE j \in {7, 8} : s[j] = "-"
                      y == IntOf(SubSeq(s, 1, 4))
                      m == IntOf(SubSeq(s, 6, j - 1))
                      d == IntOf(Strip(SubSeq(s, j + 1, Len(s))))
                  IN  IF y < 1 \/ d > DaysInMonth(y, m)
                      THEN Raise("ValueError", "out of range", <<>>)
                      ELSE Return([year |-> y, month |-> m, day |-> d])

\* datetime.strptime(x, "%H:%M"): the time's hour and minute
StrptimeTime(x) ==
    IF x.t # "str" THEN Raise("TypeError", "strptime() argument 1 must be str", <<>>)
    ELSE LET s  == x.v
             ok == \E j \in {2, 3} :
                        /\ j < Len(s)
                        /\ s[j] = ":"
                        /\ IsHourToken(SubSeq(s, 1, j - 1))
                        /\ IsMinuteToken(SubSeq(s, j + 1, Len(s)))
         IN  IF ~ok THEN Raise("ValueError", "does not match format", <<>>)
             ELSE LET j == CHOOSE j \in {2, 3} : j <= Len(s) /\ s[j] = ":"
                  IN  Return([hour   |-> IntOf(SubSeq(s, 1, j - 1)),
                              minute |-> IntOf(SubSeq(s, j + 1, Len(s)))])

(***************************************************************************)
(* validators.py                                                           *)
(***************************************************************************)
None == "None"

required_fields == <<"retailer", "purchaseDate", "purchaseTime", "items", "total">>

RECURSIVE RequiredFieldsFrom(_, _)
RequiredFieldsFrom(receipt, i) ==
    IF i > Len(required_fields) THEN Return(None)
    ELSE LET present == Contains(receipt, required_fields[i])
         IN  IF Raised(present) THEN present
             ELSE IF ~present.val
                  THEN Raise("ValueError", "Missing required field: {}",
                             <<required_fields[i]>>)
             ELSE RequiredFieldsFrom(receipt, i + 1)

_validate_required_fields(receipt) == RequiredFieldsFrom(receipt, 1)

\* re.match raises TypeError for an argument that is not a string
NotAString == Raise("TypeError", "expected string or bytes-like object", <<>>)

_validate_retailer(retailer) ==
    IF retailer.t # "str" THEN NotAString
    ELSE IF ~MatchesClassPlus(retailer.v, RetailerChars)
         THEN Raise("ValueError", "Invalid retailer name format", <<>>)
    ELSE Return(None)

_validate_purchase_date(date_str) ==
    LET parsed == StrptimeDate(date_str)
    IN  IF parsed.exc = "ValueError"
        THEN Raise("ValueError", "Invalid purchase date format", <<>>)
        ELSE IF Raised(parsed) THEN parsed
        ELSE Return(None)

_validate_purchase_time(time_str) ==
    LET parsed == StrptimeTime(time_str)
    IN  IF parsed.exc = "ValueError"
        THEN Raise("ValueError", "Invalid purchase time format", <<>>)
        ELSE IF Raised(parsed) THEN parsed
        ELSE Return(None)

_validate_item_format(item) ==
    IF item.t # "dict"
    THEN Raise("ValueError", "Each item must be an object", <<>>)
    ELSE IF "shortDescription" \notin DOMAIN item.v \/ "price" \notin DOMAIN item.v
         THEN Raise("ValueError", "Items must have shortDescription and price", <<>>)
    ELSE IF item.v["shortDescription"].t # "str" THEN NotAString
    ELSE IF ~MatchesClassPlus(item.v["shortDescription"].v, DescriptionChars)
         THEN Raise("ValueError", "Invalid item description format", <<>>)
    ELSE IF item.v["price"].t # "str" THEN NotAString
    ELSE IF ~MatchesAmount(item.v["price"].v)
         THEN Raise("ValueError", "Invalid item price format", <<>>)
    ELSE Return(None)

\* float(price_str); a float parsed from digits is never negative
_validate_item_price(price_str, description) ==
    LET price == PyFloat(price_str.v)
    IN  IF Raised(price)
        THEN Raise("ValueError", "Invalid price value for item: {}", <<description>>)
        ELSE price

RECURSIVE ItemsFrom(_, _, _)
ItemsFrom(items, i, total_sum) ==
    IF i > Len(items) THEN Return(total_sum)
    ELSE LET format == _validate_item_format(items[i])
         IN  IF Raised(format) THEN format
             ELSE LET price == _validate_item_price(items[i].v["price"],
                                                    items[i].v["shortDescription"])
                  IN  IF Raised(price) THEN price
                      ELSE ItemsFrom(items, i + 1, FAdd(total_sum, price.val))

_validate_items_array(items) ==
    IF items.t # "list" \/ Len(items.v) < 1
    THEN Raise("ValueError", "Items must be a non-empty array", <<>>)
    ELSE ItemsFrom(items.v, 1, FZero)

\* the literal 0.01
Tolerance == FFromRatio(BFromInt(1), 100)

\* a validator that wants the total to equal the sum
total_equal_to_sum(total_str, items_sum) ==
    IF total_str.t # "str" THEN NotAString
    ELSE IF ~MatchesAmount(total_str.v)
         THEN Raise("ValueError", "Invalid total format", <<>>)
    ELSE IF PyFloat(total_str.v).val # items_sum
         THEN Raise("ValueError",
                    "Receipt total ({}) does not match sum of items ({})",
                    <<PyFloat(total_str.v).val, items_sum>>)
    ELSE Return(None)

_validate_total(total_str, items_sum) ==
    IF total_str.t # "str" THEN NotAString
    ELSE IF ~MatchesAmount(total_str.v)
         THEN Raise("ValueError", "Invalid total format", <<>>)
    ELSE LET total == PyFloat(total_str.v)
         IN  IF Raised(total) THEN Raise("ValueError", "Invalid total value", <<>>)
             ELSE IF FGt(FAbsDiff(total.val, items_sum), Tolerance)
                  THEN Raise("ValueError",
                             "Receipt total ({}) does not match sum of items ({})",
                             <<total.val, items_sum>>)
             ELSE Return(None)

\* a validator that checks the purchase date before the retailer
validate_receipt_date_first(receipt) ==
    LET fields == _validate_required_fields(receipt)
    IN  IF Raised(fields) THEN fields ELSE
    LET date == GetItem(receipt, "purchaseDate")
    IN  IF Raised(date) THEN date ELSE
    LET d == _validate_purchase_date(date.val)
    IN  IF Raised(d) THEN d ELSE
    LET r == _validate_retailer(GetItem(receipt, "retailer").val)
    IN  IF Raised(r) THEN r ELSE
    LET t == _validate_purchase_time(GetItem(receipt, "purchaseTime").val)
    IN  IF Raised(t) THEN t ELSE
    LET items_sum == _validate_items_array(GetItem(receipt, "items").val)
    IN  IF Raised(items_sum) THEN items_sum ELSE
    LET total == _validate_total(GetItem(receipt, "total").val, items_sum.val)
    IN  IF Raised(total) THEN total ELSE Return(TRUE)

validate_receipt(receipt) ==
    LET fields == _validate_required_fields(receipt)
    IN  IF Raised(fields) THEN fields ELSE
    LET retailer == GetItem(receipt, "retailer")
    IN  IF Raised(retailer) THEN retailer ELSE
    LET r == _validate_retailer(retailer.val)
    IN  IF Raised(r) THEN r ELSE
    LET d == _validate_purchase_date(GetItem(receipt, "purchaseDate").val)
    IN  IF Raised(d) THEN d ELSE
    LET t == _validate_purchase_time(GetItem(receipt, "purchaseTime").val)
    IN  IF Raised(t) THEN t ELSE
    LET items_sum == _validate_items_array(GetItem(receipt, "items").val)
    IN  IF Raised(items_sum) THEN items_sum ELSE
    LET total == _validate_total(GetItem(receipt, "total").val, items_sum.val)
    IN  IF Raised(total) THEN total ELSE Return(TRUE)

(***************************************************************************)
(* points_calculator.py.  The rules index their argument as the values of  *)
(* a validated receipt are typed: strings, and a list of dictionaries of   *)
(* strings.                                                                *)
(***************************************************************************)
RECURSIVE CountIn(_, _)
CountIn(s, class) ==
    IF s = <<>> THEN 0
    ELSE (IF s[1] \in class THEN 1 ELSE 0) + CountIn(Tail(s), class)

_get_retailer_name_points(retailer) == Return(CountIn(retailer.v, Alnum))

\* float % 0.25 == 0: the remainder of a finite float is exact, that of
\* infinity is nan
IsQuarterMultiple(x) == x.k = "fin" /\ FMultipleOfPow2(x, 0 - 2)

_get_total_amount_points(total) ==
    LET total_float == PyFloat(total.v)
    IN  IF Raised(total_float) THEN total_float
        ELSE Return((IF FIsInteger(total_float.val) THEN 50 ELSE 0)
                    + (IF IsQuarterMultiple(total_float.val) THEN 25 ELSE 0))

\* a scorer that awards 5 points for every item, not for every pair
points_for_every_item(items) == Return(Len(items.v) * 5)

_get_items_count_points(items) == Return((Len(items.v) \div 2) * 5)

\* int(x) of a float
PyInt(x) ==
    IF x.k = "inf"
    THEN Raise("OverflowError", "cannot convert float infinity to integer", <<>>)
    ELSE IF x.k = "nan"
         THEN Raise("ValueError", "cannot convert float NaN to integer", <<>>)
    ELSE Return(BToInt(FFloor(x)))

\* int(float(price) * 0.2 + 0.99)
ItemPoints(price) ==
    LET p == PyFloat(price.v)
    IN  IF Raised(p) THEN p
        ELSE PyInt(FAdd(FMul(p.val, FFromRatio(BFromInt(2), 10)),
                        FFromRatio(BFromInt(99), 100)))

RECURSIVE DescriptionPointsFrom(_, _, _)
DescriptionPointsFrom(items, i, points) ==
    IF i > Len(items) THEN Return(points)
    ELSE LET description == Strip(items[i].v["shortDescription"].v)
         IN  IF Len(description) % 3 = 0
             THEN LET p == ItemPoints(items[i].v["price"])
                  IN  IF Raised(p) THEN p
                      ELSE DescriptionPointsFrom(items, i + 1, points + p.val)
             ELSE DescriptionPointsFrom(items, i + 1, points)

\* a scorer that passes over the descriptions that strip() empties
points_for_visible_descriptions(items) ==
    DescriptionPointsFrom(
        SelectSeq(items.v,
                  LAMBDA item : Strip(item.v["shortDescription"].v) # <<>>),
        1, 0)

_get_description_length_points(items) == DescriptionPointsFrom(items.v, 1, 0)

_get_purchase_date_points(purchase_date) ==
    LET date == StrptimeDate(purchase_date)
    IN  IF Raised(date) THEN date
        ELSE Return(IF date.val.day % 2 = 1 THEN 6 ELSE 0)

_get_purchase_time_points(purchase_time) ==
    LET time == StrptimeTime(purchase_time)
    IN  IF Raised(time) THEN time
        ELSE Return(IF 14 <= time.val.hour /\ time.val.hour < 16 THEN 10 ELSE 0)

calculate_points(receipt) ==
    LET p1 == _get_retailer_name_points(receipt.v["retailer"])
    IN  IF Raised(p1) THEN p1 ELSE
    LET p2 == _get_total_amount_points(receipt.v["total"])
    IN  IF Raised(p2) THEN p2 ELSE
    LET p3 == _get_items_count_points(receipt.v["items"])
    IN  IF Raised(p3) THEN p3 ELSE
    LET p4 == _get_description_length_points(receipt.v["items"])
    IN  IF Raised(p4) THEN p4 ELSE
    LET p5 == _get_purchase_date_points(receipt.v["purchaseDate"])
    IN  IF Raised(p5) THEN p5 ELSE
    LET p6 == _get_purchase_time_points(receipt.v["purchaseTime"])
    IN  IF Raised(p6) THEN p6 ELSE
    Return(p1.val + p2.val + p3.val + p4.val + p5.val + p6.val)

(***************************************************************************)
(* Request bodies.  A body is named by a key <<family, a, b>>; Body(key)   *)
(* is the JSON value request.get_json() returns for it.  The states hold   *)
(* keys, and the results of validating and scoring each body are computed  *)
(* once, in the tables Validated and Scored.                               *)
(***************************************************************************)
MaxItems == 4
HugeDigits == 309

Target == <<"T", "a", "r", "g", "e", "t">>
ExampleDate == <<"2", "0", "2", "2", "-", "0", "1", "-", "0", "1">>
ExampleTime == <<"1", "3", ":", "0", "1">>

Item(description, price) ==
    JDict([f \in {"shortDescription", "price"} |->
              IF f = "price" THEN price ELSE description])

FieldNames == {required_fields[j] : j \in 1..Len(required_fields)}

Receipt(retailer, purchaseDate, purchaseTime, items, total) ==
    JDict([f \in FieldNames |->
              CASE f = "retailer" -> retailer
                [] f = "purchaseDate" -> purchaseDate
                [] f = "purchaseTime" -> purchaseTime
                [] f = "items" -> items
                [] f = "total" -> total])

\* the receipt of the docstrings of validate_receipt and calculate_points
\* with the given total
ExampleItems ==
    JList(<< Item(JStr(<<"M", "o", "u", "n", "t", "a", "i", "n", " ", "D",
                  "e", "w", " ", "1", "2", "P", "K">>),
                  JStr(<<"6", ".", "4", "9">>)),
             Item(JStr(<<"E", "m", "i", "l", "s", " ", "C", "h", "e", "e",
                  "s", "e", " ", "P", "i", "z", "z", "a">>),
                  JStr(<<"1", "2", ".", "2", "5">>)) >>)

ExampleTotals ==
    << <<"1", "8", ".", "7", "4">>,
       <<"1", "8", ".", "7", "5">>,
       <<"1", "8", ".", "7", "3">> >>

Example(t) ==
    Receipt(JStr(Target), JStr(ExampleDate), JStr(ExampleTime), ExampleItems,
            JStr(ExampleTotals[t]))

\* an amount of HugeDigits nines before the point: beyond the largest float
HugeAmount == [i \in 1..HugeDigits |-> "9"] \o <<".", "0", "0">>

\* 12.34 in the digits U+0660 to U+0669
ArabicAmount == <<"U+0661", "U+0662", ".", "U+0663", "U+0664">>

\* item descriptions the description pattern matches
Descriptions ==
    << <<"A", "B", "C">>,
       <<"A", "B">>,
       <<"A", "B", "C", "D", "E", "F">>,
       <<" ">>,
       <<"E", "m", "i", "l", "s", " ", "C", "h", "e", "e", "s", "e", " ", "P",
       "i", "z", "z", "a">>,
       <<" ", "a", " ", "b", " ">>,
       <<"a", "b", "U+00A0">>,
       <<"U+00A0">>,
       <<"U+00E9", "U+4E2D", "U+00DF">> >>

\* (item price, receipt total) of the receipts of one item
Amounts ==
    << <<<<"1", "0", ".", "0", "0">>, <<"1", "0", ".", "0", "0">>>>,
       <<<<"1", "2", ".", "2", "5">>, <<"1", "2", ".", "2", "5">>>>,
       <<<<"0", ".", "0", "1">>, <<"0", ".", "0", "1">>>>,
       <<<<"0", ".", "0", "1">>, <<"0", ".", "0", "2">>>>,
       <<<<"0", ".", "0", "3">>, <<"0", ".", "0", "3">>>>,
       <<<<"0", ".", "0", "3">>, <<"0", ".", "0", "4">>>>,
       <<<<"0", ".", "0", "4">>, <<"0", ".", "0", "3">>>>,
       <<<<"5", "1", "5", ".", "0", "5">>, <<"5", "1", "5", ".", "0", "5">>>>,
       <<<<"1", "0", ".", "0", "0">>, <<"1", "0", ".", "0", "2">>>>,
       <<<<"9", ".", "0", "0">>, <<"9", ".", "0", "0">>>>,
       <<<<"1", "0", ".", "2", "5">>, <<"1", "0", ".", "2", "5">>>>,
       <<<<"5", ".", "0", "1">>, <<"5", ".", "0", "1">>>>,
       <<<<"0", ".", "0", "0">>, <<"0", ".", "0", "0">>>>,
       <<<<"2", ".", "5", "0">>, <<"2", ".", "5", "1">>>>,
       <<ArabicAmount, ArabicAmount>>,
       <<HugeAmount, HugeAmount>> >>

\* a receipt that scores nothing but for its retailer: one item, an even day,
\* a morning hour, a total that is no multiple of 0.25
PlainDescription == <<"A", "B">>
PlainAmount == <<"0", ".", "9", "9">>
PlainDate == <<"2", "0", "2", "4", "-", "0", "3", "-", "2", "0">>
PlainTime == <<"1", "3", ":", "0", "0">>
PlainItems == JList(<<Item(JStr(PlainDescription), JStr(PlainAmount))>>)

Retailers ==
    << JStr(<<"T", "a", "r", "g", "e", "t">>),
       JStr(<<"M", "&", "M", " ", "C", "o", "r", "n", "e", "r", " ", "M", "a",
       "r", "k", "e", "t">>),
       JStr(<<"7", "-", "1", "1">>),
       JStr(<<"a", "_", "b", " ", "c">>),
       JStr(<<>>),
       JStr(<<"B", "e", "s", "t", " ", "B", "u", "y", "!">>),
       JNum(5),
       JNull,
       JList(<<>>),
       JStr(<<"C", "a", "f", "U+00E9">>),
       JStr(<<"a", "U+00A0", "b">>),
       JStr(<<"x", "U+00B2">>),
       JStr(<<"a", "U+00D7", "b">>) >>

Dates ==
    << JStr(<<"2", "0", "2", "4", "-", "0", "3", "-", "2", "1">>),
       JStr(<<"2", "0", "2", "4", "-", "0", "3", "-", "2", "0">>),
       JStr(<<"2", "0", "2", "4", "-", "0", "2", "-", "2", "9">>),
       JStr(<<"2", "0", "2", "2", "-", "1", "-", "9">>),
       JStr(<<"2", "0", "2", "2", "-", "1", "3", "-", "0", "1">>),
       JStr(<<"2", "0", "2", "3", "-", "0", "2", "-", "2", "9">>),
       JStr(<<"2", "0", "2", "2", "-", "0", "1", "-", "0", "1", "\n">>),
       JNum(5),
       JStr(<<"U+0662", "U+0660", "U+0662", "U+0662", "-", "0", "1", "-", "0",
       "1">>),
       JStr(<<"2", "0", "2", "2", "-", "0", "1", "-", "1", "U+0663">>),
       JStr(<<"2", "0", "2", "2", "-", "U+0660", "U+0661", "-", "0", "1">>) >>

Times ==
    << JStr(<<"1", "4", ":", "0", "0">>),
       JStr(<<"1", "5", ":", "5", "9">>),
       JStr(<<"1", "3", ":", "5", "9">>),
       JStr(<<"1", "6", ":", "0", "0">>),
       JStr(<<"9", ":", "5">>),
       JStr(<<"2", "5", ":", "0", "0">>),
       JStr(<<"1", "2", ":", "6", "0">>),
       JNull,
       JStr(<<"1", "U+0664", ":", "0", "0">>),
       JStr(<<"U+0661", "U+0664", ":", "0", "0">>) >>

\* the amount of n cents, n < 10
SmallAmount(n) == <<"0", ".", "0", DigitOrder[n + 1]>>
CountedDescription == <<"I", "t", "e", "m", "1">>

\* values that violate the check of their field
BadRetailer == <<"B", "e", "s", "t", " ", "B", "u", "y", "!">>
BadDate == <<"2", "0", "2", "2", "-", "1", "3", "-", "0", "1">>
BadTime == <<"2", "5", ":", "0", "0">>
BadAmount == <<"1", ".", "5">>

\* items as _validate_item_format and the loop of _validate_items_array
\* tell them apart
ItemKinds ==
    << Item(JStr(PlainDescription), JStr(PlainAmount)),
       JStr(PlainDescription),
       JDict([f \in {"price"} |-> JStr(PlainAmount)]),
       Item(JStr(BadRetailer), JStr(PlainAmount)),
       Item(JStr(PlainDescription), JStr(BadAmount)),
       Item(JNum(5), JStr(PlainAmount)),
       Item(JStr(PlainDescription), JNull) >>

\* totals of the receipts of two items
PairTotals ==
    << <<"1", ".", "9", "8">>,
       <<"0", ".", "9", "9">> >>

\* bit j (from 1) of the mask s
Bit(s, j) == (s \div (2 ^ (j - 1))) % 2

\* bodies that are no dictionary
Bodies ==
    << JNull,
       JNum(5),
       JList(<<>>),
       JList([i \in 1..Len(required_fields) |-> JStr(KeyChars(required_fields[i]))]),
       JStr(KeyChars("retailer") \o KeyChars("purchaseDate")
            \o KeyChars("purchaseTime") \o KeyChars("items") \o KeyChars("total")) >>

FieldValue(f, bad) ==
    CASE f = "retailer" -> JStr(IF bad THEN BadRetailer ELSE Target)
      [] f = "purchaseDate" -> JStr(IF bad THEN BadDate ELSE PlainDate)
      [] f = "purchaseTime" -> JStr(IF bad THEN BadTime ELSE PlainTime)
      [] f = "items" -> IF bad THEN JList(<<ItemKinds[5]>>) ELSE PlainItems
      [] f = "total" -> JStr(IF bad THEN BadAmount ELSE PlainAmount)

FieldAt(f) == CHOOSE j \in 1..Len(required_fields) : required_fields[j] = f

Families == {"example", "single", "retailer", "date", "time", "count",
             "fields", "faults", "items", "body"}

Keys ==
    {<<"example", t, 0>> : t \in 1..Len(ExampleTotals)}
    \cup {<<"single", d, a>> : d \in 1..Len(Descriptions), a \in 1..Len(Amounts)}
    \cup {<<"retailer", r, 0>> : r \in 1..Len(Retailers)}
    \cup {<<"date", d, 0>> : d \in 1..Len(Dates)}
    \cup {<<"time", t, 0>> : t \in 1..Len(Times)}
    \cup {<<"count", n, 0>> : n \in 0..MaxItems}
    \cup {<<"fields", s, 0>> : s \in 0..(2 ^ Len(required_fields) - 1)}
    \cup {<<"faults", s, 0>> : s \in 0..(2 ^ Len(required_fields) - 1)}
    \cup {<<"items", a, b>> : a \in 1..Len(ItemKinds), b \in 0..Len(ItemKinds)}
    \cup {<<"body", j, 0>> : j \in 1..Len(Bodies)}

Body(key) ==
    CASE key[1] = "example" -> Example(key[2])
      [] key[1] = "single" ->
            Receipt(JStr(Target), JStr(PlainDate), JStr(PlainTime),
                    JList(<<Item(JStr(Descriptions[key[2]]),
                                 JStr(Amounts[key[3]][1]))>>),
                    JStr(Amounts[key[3]][2]))
      [] key[1] = "retailer" ->
            Receipt(Retailers[key[2]], JStr(PlainDate), JStr(PlainTime),
                    PlainItems, JStr(PlainAmount))
      [] key[1] = "date" ->
            Receipt(JStr(Target), Dates[key[2]], JStr(PlainTime),
                    PlainItems, JStr(PlainAmount))
      [] key[1] = "time" ->
            Receipt(JStr(Target), JStr(PlainDate), Times[key[2]],
                    PlainItems, JStr(PlainAmount))
      [] key[1] = "count" ->
            Receipt(JStr(Target), JStr(PlainDate), JStr(PlainTime),
                    JList([i \in 1..key[2] |->
                              Item(JStr(CountedDescription), JStr(SmallAmount(1)))]),
                    JStr(SmallAmount(key[2])))
      [] key[1] = "fields" ->
            JDict([f \in {g \in FieldNames : Bit(key[2], FieldAt(g)) = 1} |->
                      FieldValue(f, FALSE)])
      [] key[1] = "faults" ->
            JDict([f \in FieldNames |->
                      FieldValue(f, Bit(key[2], FieldAt(f)) = 1)])
      [] key[1] = "items" ->
            Receipt(JStr(Target), JStr(PlainDate), JStr(PlainTime),
                    JList(IF key[3] = 0 THEN <<ItemKinds[key[2]]>>
                          ELSE <<ItemKinds[key[2]], ItemKinds[key[3]]>>),
                    JStr(PairTotals[IF key[3] = 0 THEN 2 ELSE 1]))
      [] key[1] = "body" -> Bodies[key[2]]

NotRun == Raise("not run", "", <<>>)

\* f @@ <<>> is f, with its values computed once
Validated == [key \in Keys |-> validate_receipt(Body(key))] @@ <<>>

\* the program scores only the receipts of its store, which it validated
Scored ==
    [key \in Keys |->
        IF Raised(Validated[key]) THEN NotRun ELSE calculate_points(Body(key))] @@ <<>>

(***************************************************************************)
(* app.py: the store and the two handlers.  The store maps an identifier   *)
(* to the key of the stored body.  uuid4 draws an identifier that was not  *)
(* drawn before; the store never loses a key, so the identifiers drawn     *)
(* are the keys of the store.                                              *)
(***************************************************************************)
MaxReceipts == 2

Ids == 1..MaxReceipts

\* an identifier no receipt was stored under
Unknown == 0

\* a request whose body is no JSON: request.get_json() raises
Unparsable == <<"unparsable", 0, 0>>

\* the bodies submitted to the service
ServiceKeys ==
    { <<"example", 1, 0>>, <<"example", 3, 0>>, <<"single", 1, 1>>,
      <<"single", 1, Len(Amounts)>>, <<"fields", 15, 0>>, <<"body", 1, 0>>,
      <<"retailer", 7, 0>>, Unparsable }

get_json(key) ==
    IF key = Unparsable THEN Raise("BadRequest", "", <<>>) ELSE Return(key)

NoResponse == [status |-> 0, id |-> Unknown, points |-> 0, error |-> "", args |-> <<>>]

jsonify_id(receipt_id) == [NoResponse EXCEPT !.status = 200, !.id = receipt_id]
jsonify_points(p) == [NoResponse EXCEPT !.status = 200, !.points = p]
jsonify_error(code, msg, args) ==
    [NoResponse EXCEPT !.status = code, !.error = msg, !.args = args]

\* identifiers that may collide with those of the store
uuid4_colliding(store) == Ids

\* str(uuid.uuid4())
uuid4(store) == Ids \ DOMAIN store

\* receipts[receipt_id] = receipt
Store(store, receipt_id, key) ==
    [i \in DOMAIN store \cup {receipt_id} |->
        IF i = receipt_id THEN key ELSE store[i]]

\* the outcome of the try block up to the call of uuid4; validate_receipt
\* is given as the table of its results
Candidate(key, validator) ==
    IF Raised(get_json(key)) THEN get_json(key)
    ELSE validator[get_json(key).val]

\* a handler that stores the candidate before it validates it
process_receipt_storing_first(store, key, validator) ==
    IF ~Raised(Candidate(key, validator))
    THEN {[receipts |-> Store(store, receipt_id, key),
           response |-> jsonify_id(receipt_id)] : receipt_id \in uuid4(store)}
    ELSE IF Candidate(key, validator).exc = "ValueError"
         THEN {[receipts |-> Store(store, receipt_id, key),
                response |-> jsonify_error(400, Candidate(key, validator).msg,
                                           Candidate(key, validator).args)] :
                  receipt_id \in uuid4(store)}
    ELSE {[receipts |-> store,
           response |-> jsonify_error(500, "Internal server error", <<>>)]}

\* the handler's outcomes: the store it leaves and its response, one
\* outcome for each identifier uuid4 can draw
process_receipt(store, key, validator) ==
    IF ~Raised(Candidate(key, validator))
    THEN {[receipts |-> Store(store, receipt_id, key),
           response |-> jsonify_id(receipt_id)] : receipt_id \in uuid4(store)}
    ELSE IF Candidate(key, validator).exc = "ValueError"
         THEN {[receipts |-> store,
                response |-> jsonify_error(400, Candidate(key, validator).msg,
                                           Candidate(key, validator).args)]}
    ELSE {[receipts |-> store,
           response |-> jsonify_error(500, "Internal server error", <<>>)]}

\* calculate_points is given as the table of its results; an exception
\* that leaves the handler is answered by the framework with status 500
get_points(store, id, scorer) ==
    IF id \notin DOMAIN store
    THEN jsonify_error(404, "Receipt not found", <<>>)
    ELSE IF Raised(scorer[store[id]])
         THEN jsonify_error(500, scorer[store[id]].exc, <<>>)
    ELSE jsonify_points(scorer[store[id]].val)

VARIABLES receipts, request, response, firstQuery, candidate, validation, awarded

vars == <<receipts, request, response, firstQuery, candidate, validation, awarded>>

service == <<receipts, request, response, firstQuery>>
rules == <<candidate, validation, awarded>>

NoRequest == [op |-> "none", key |-> Unparsable, id |-> Unknown]

\* the service starts with an empty store
Init ==
    /\ receipts = <<>>
    /\ request = NoRequest
    /\ response = NoResponse
    /\ firstQuery = <<>>
    /\ candidate = <<"example", 1, 0>>
    /\ validation = NotRun
    /\ awarded = NotRun

\* POST /receipts/process
Submit(key) ==
    /\ \E out \in process_receipt(receipts, key, Validated) :
          /\ receipts' = out.receipts
          /\ response' = out.response
    /\ request' = [op |-> "submit", key |-> key, id |-> Unknown]
    /\ UNCHANGED <<firstQuery, rules>>

\* GET /receipts/<id>/points.  firstQuery is a history of the queries: the
\* first answer given for each stored identifier, and whether the
\* identifier was queried again.
Query(id) ==
    /\ response' = get_points(receipts, id, Scored)
    /\ request' = [op |-> "query", key |-> Unparsable, id |-> id]
    /\ firstQuery' =
          IF id \notin DOMAIN receipts THEN firstQuery
          ELSE IF id \notin DOMAIN firstQuery
               THEN Store(firstQuery, id, [response |-> response', again |-> FALSE])
          ELSE [firstQuery EXCEPT ![id].again = TRUE]
    /\ UNCHANGED <<receipts, rules>>

Next ==
    \/ \E key \in ServiceKeys : Submit(key)
    \/ \E id \in Ids \cup {Unknown} : Query(id)

Spec == Init /\ [][Next]_vars

(***************************************************************************)
(* The validator and the scorer as functions of one candidate: the         *)
(* candidate is any body of the pool, it is validated, and it is scored    *)
(* when the validator accepted it, as the service does.                    *)
(***************************************************************************)
InitRules ==
    /\ receipts = <<>>
    /\ request = NoRequest
    /\ response = NoResponse
    /\ firstQuery = <<>>
    /\ candidate \in Keys
    /\ validation = NotRun
    /\ awarded = NotRun

Validate ==
    /\ validation = NotRun
    /\ validation' = Validated[candidate]
    /\ UNCHANGED <<service, candidate, awarded>>

Score ==
    /\ validation # NotRun
    /\ ~Raised(validation)
    /\ awarded = NotRun
    /\ awarded' = Scored[candidate]
    /\ UNCHANGED <<service, candidate, validation>>

NextRules == Validate \/ Score

SpecRules == InitRules /\ [][NextRules]_vars

(***************************************************************************)
(* The rules as the documentation states them, in exact arithmetic on      *)
(* cents.  An amount is \d+\.\d{2}: its digits are its number of cents.    *)
(***************************************************************************)
IsDigit(c) == c \in Digits

AmountDigits(s) == SelectSeq(s, IsDigit)

\* the last two digits of an amount: its cents within the dollar
CentsInDollar(s) ==
    IntOf(SubSeq(AmountDigits(s), Len(AmountDigits(s)) - 1, Len(AmountDigits(s))))

Cents(s) == IntOf(AmountDigits(s))

TrimmedLength(description) == Len(Strip(description))

\* the text of s after its last c, and before its first c
AfterLast(s, c) == SubSeq(s, Highest(Positions(s, c)) + 1, Len(s))
BeforeFirst(s, c) == SubSeq(s, 1, Lowest(Positions(s, c)) - 1)

R1(receipt) == Cardinality({i \in 1..Len(receipt["retailer"].v) :
                               receipt["retailer"].v[i] \in Alnum})
R2(receipt) == IF CentsInDollar(receipt["total"].v) = 0 THEN 50 ELSE 0
R3(receipt) == IF CentsInDollar(receipt["total"].v) % 25 = 0 THEN 25 ELSE 0
R4(receipt) == 5 * (Len(receipt["items"].v) \div 2)

\* floor(price * 0.2 + 0.99) = floor((cents + 495) / 500)
ScaledPlus99(price) == (Cents(price) + 495) \div 500

\* ceil(price * 0.2) = ceil(cents / 500)
ScaledUp(price) == (Cents(price) + 499) \div 500

Counted(item) == TrimmedLength(item.v["shortDescription"].v) % 3 = 0

RECURSIVE R5From(_, _)
R5From(items, i) ==
    IF i > Len(items) THEN 0
    ELSE (IF Counted(items[i]) THEN ScaledPlus99(items[i].v["price"].v) ELSE 0)
         + R5From(items, i + 1)

R5(receipt) == R5From(receipt["items"].v, 1)

RECURSIVE RoundedUpFrom(_, _)
RoundedUpFrom(items, i) ==
    IF i > Len(items) THEN 0
    ELSE (IF Counted(items[i]) THEN ScaledUp(items[i].v["price"].v) ELSE 0)
         + RoundedUpFrom(items, i + 1)

R6(receipt) == IF IntOf(AfterLast(receipt["purchaseDate"].v, "-")) % 2 = 1
               THEN 6 ELSE 0

R7(receipt) ==
    IF IntOf(BeforeFirst(receipt["purchaseTime"].v, ":")) \in 14..15
    THEN 10 ELSE 0

RuleSum(receipt) ==
    R1(receipt) + R2(receipt) + R3(receipt) + R4(receipt) + R5(receipt)
    + R6(receipt) + R7(receipt)

Accepted == validation # NotRun /\ ~Raised(validation)
PointsAwarded == awarded # NotRun

\* C1: for every receipt that validate_receipt accepts, calculate_points
\* returns the sum of the seven rules R1..R7, R5 being the sum of
\* floor(price * 0.2 + 0.99) over the items whose trimmed description
\* length is a multiple of 3.
C1_PointsAreTheRuleSum ==
    (Accepted /\ PointsAwarded) =>
        /\ ~Raised(awarded)
        /\ awarded.val = RuleSum(Body(candidate).v)

\* C10: for every receipt that validate_receipt accepts, calculate_points
\* completes without raising and returns an integer that is not negative.
C10_ScoringNeverFails ==
    (Accepted /\ PointsAwarded) =>
        /\ ~Raised(awarded)
        /\ awarded.val \in Nat

\* C2 as amended: the example receipt passes validate_receipt and
\* calculate_points returns 20 for it.
C2_ExampleScores20 ==
    Body(candidate) = Example(1) =>
        /\ validation # NotRun => ~Raised(validation)
        /\ PointsAwarded => awarded = Return(20)

\* C2 as stated: the example receipt passes validate_receipt and
\* calculate_points returns 14 for it.
C2_ExampleScores14 ==
    Body(candidate) = Example(1) =>
        /\ validation # NotRun => ~Raised(validation)
        /\ PointsAwarded => awarded = Return(14)

\* the example receipt was validated and scored
C2_ExampleScored == Body(candidate) = Example(1) /\ Accepted /\ PointsAwarded

(***************************************************************************)
(* The tolerance of the total, in exact arithmetic on cents.               *)
(***************************************************************************)
TotalMismatch == "Receipt total ({}) does not match sum of items ({})"

RECURSIVE SumOfCents(_, _)
SumOfCents(items, i) ==
    IF i > Len(items) THEN <<>>
    ELSE BAdd(BigOf(AmountDigits(items[i].v["price"].v)), SumOfCents(items, i + 1))

\* |total - sum of the prices| <= 0.01
WithinOneCent(receipt) ==
    LET total == BigOf(AmountDigits(receipt["total"].v))
        sum == SumOfCents(receipt["items"].v, 1)
    IN  \/ BCmp(total, sum) = 0
        \/ BCmp(total, sum) > 0 /\ BCmp(BSub(total, sum), <<1>>) = 0
        \/ BCmp(total, sum) < 0 /\ BCmp(BSub(sum, total), <<1>>) = 0

\* the candidate passed the checks before the comparison of the total
TotalCompared ==
    /\ validation # NotRun
    /\ ~Raised(validation) \/ validation.msg = TotalMismatch

\* C7: a candidate that passes the checks of the fields and of the items,
\* with a well-formed total, is accepted if and only if the total differs
\* from the sum of the item prices by at most 0.01, and fails with
\* TotalMismatch otherwise.
C7_AcceptedIffWithinOneCent ==
    TotalCompared => (~Raised(validation) <=> WithinOneCent(Body(candidate).v))

\* C8 as amended: the receipt with items priced 6.49 and 12.25 and total
\* 18.75 is accepted by validate_receipt.
C8_OneCentOverIsAccepted ==
    (Body(candidate) = Example(2) /\ validation # NotRun) => validation = Return(TRUE)

\* C8 as stated: the receipt with items priced 6.49 and 12.25 and total
\* 18.75 is rejected by validate_receipt with TotalMismatch.
C8_OneCentOverIsRejected ==
    (Body(candidate) = Example(2) /\ validation # NotRun) =>
        /\ validation.exc = "ValueError"
        /\ validation.msg = TotalMismatch

\* the receipt with total 18.75 was validated
C8_OneCentOverValidated == Body(candidate) = Example(2) /\ validation # NotRun

\* C9: for a validated receipt rule 5 adds, for every item whose trimmed
\* description length is a multiple of 3, the price times 0.2 rounded up to
\* the nearest integer, and nothing for the other items.
C9_Rule5RoundsUp ==
    Accepted =>
        LET rule5 == _get_description_length_points(Body(candidate).v["items"])
        IN  /\ ~Raised(rule5)
            /\ rule5.val = RoundedUpFrom(Body(candidate).v["items"].v, 1)

(***************************************************************************)
(* The order of the checks.  CheckAlone(receipt, k) is the outcome of the  *)
(* k-th check on its own, for a dictionary that holds the five fields.     *)
(***************************************************************************)
MissingFields(receipt) ==
    {j \in 1..Len(required_fields) : required_fields[j] \notin DOMAIN receipt.v}

CheckAlone(receipt, k) ==
    CASE k = 2 -> _validate_retailer(receipt.v["retailer"])
      [] k = 3 -> _validate_purchase_date(receipt.v["purchaseDate"])
      [] k = 4 -> _validate_purchase_time(receipt.v["purchaseTime"])
      [] k = 5 -> _validate_items_array(receipt.v["items"])
      [] k = 6 -> _validate_total(receipt.v["total"],
                                  _validate_items_array(receipt.v["items"]).val)

\* the checks the candidate violates; the total is compared with the sum
\* of the items, which exists only when the items are valid
ViolatedChecks(receipt) ==
    {k \in 2..6 : /\ k = 6 => ~Raised(CheckAlone(receipt, 5))
                  /\ Raised(CheckAlone(receipt, k))}

ItemAlone(item) ==
    IF Raised(_validate_item_format(item)) THEN _validate_item_format(item)
    ELSE _validate_item_price(item.v["price"], item.v["shortDescription"])

ViolatingItems(items) == {i \in 1..Len(items) : Raised(ItemAlone(items[i]))}

FirstFailure(receipt) ==
    IF MissingFields(receipt) # {}
    THEN Raise("ValueError", "Missing required field: {}",
               <<required_fields[Lowest(MissingFields(receipt))]>>)
    ELSE IF ViolatedChecks(receipt) = {} THEN Return(TRUE)
    ELSE IF /\ Lowest(ViolatedChecks(receipt)) = 5
            /\ receipt.v["items"].t = "list"
            /\ receipt.v["items"].v # <<>>
         THEN ItemAlone(receipt.v["items"].v[
                            Lowest(ViolatingItems(receipt.v["items"].v))])
    ELSE CheckAlone(receipt, Lowest(ViolatedChecks(receipt)))

\* C6: validate_receipt reports one failure, that of the earliest violated
\* check in the order required fields, retailer, purchaseDate,
\* purchaseTime, items (item by item), total; a candidate missing several
\* required fields fails with the first missing one in the order retailer,
\* purchaseDate, purchaseTime, items, total.
C6_FirstFailureWins ==
    (Body(candidate).t = "dict" /\ validation # NotRun) =>
        validation = FirstFailure(Body(candidate))

\* a candidate that violates several checks was validated
C6_SeveralViolations ==
    /\ Body(candidate).t = "dict"
    /\ MissingFields(Body(candidate)) = {}
    /\ Cardinality(ViolatedChecks(Body(candidate))) > 1
    /\ Raised(validation)

(***************************************************************************)
(* The service.  A step that leaves a submit request is a Submit, a step   *)
(* that leaves a query request is a Query.                                 *)
(***************************************************************************)
AcceptedKey(key) == key # Unparsable /\ ~Raised(Validated[key])
RejectedKey(key) == key # Unparsable /\ Validated[key].exc = "ValueError"

Kept == \A id \in DOMAIN receipts :
            id \in DOMAIN receipts' /\ receipts'[id] = receipts[id]

\* C3: a Submit adds an entry to the store if and only if validate_receipt
\* accepts the candidate: then the candidate is stored under an identifier
\* that was no key of the store, and the identifier is returned; a
\* validation failure gives a client error with its reason, any other
\* failure a generic server error, and both leave the store unchanged.
C3_SubmitStoresIffAccepted ==
    [][request'.op = "submit" =>
          IF AcceptedKey(request'.key)
          THEN /\ response' = jsonify_id(response'.id)
               /\ response'.id \notin DOMAIN receipts
               /\ DOMAIN receipts' = DOMAIN receipts \cup {response'.id}
               /\ receipts'[response'.id] = request'.key
               /\ Kept
          ELSE /\ receipts' = receipts
               /\ IF RejectedKey(request'.key)
                  THEN response' = jsonify_error(400, Validated[request'.key].msg,
                                                 Validated[request'.key].args)
                  ELSE response' = jsonify_error(500, "Internal server error", <<>>)]_vars

\* a second receipt was accepted and stored
C3_SecondReceiptStored ==
    /\ request.op = "submit"
    /\ response.status = 200
    /\ response.id \in DOMAIN receipts
    /\ Cardinality(DOMAIN receipts) > 1

\* C4: a Query for an identifier that is no key of the store returns
\* not-found, a Query for a key returns the points calculate_points gives
\* for the receipt stored under it, and a Query never changes the store.
C4_QueryReturnsThePoints ==
    [][request'.op = "query" =>
          /\ receipts' = receipts
          /\ IF request'.id \in DOMAIN receipts
             THEN /\ ~Raised(Scored[receipts[request'.id]])
                  /\ response' = jsonify_points(Scored[receipts[request'.id]].val)
             ELSE response'.status = 404]_vars

\* C5: a stored receipt is never modified or removed by a later Submit or
\* Query, and every later Query for its identifier returns what the first
\* Query for it returned.
C5_LaterQueriesAnswerAlike ==
    [][/\ Kept
       /\ (request'.op = "query" /\ request'.id \in DOMAIN firstQuery) =>
              response' = firstQuery[request'.id].response]_vars

\* an identifier was queried again, with other receipts in the store, and
\* the answer was its points
C5_QueriedAgain ==
    /\ request.op = "query"
    /\ request.id \in DOMAIN firstQuery
    /\ firstQuery[request.id].again
    /\ response.status = 200
    /\ Cardinality(DOMAIN receipts) > 1

(***************************************************************************)
(* The retailer of a candidate that holds the five required fields.        *)
(***************************************************************************)
HoldsTheFields(body) == body.t = "dict" /\ MissingFields(body) = {}

\* a string that is not empty, of word characters, white space, hyphens
\* and ampersands
AllowedRetailer(retailer) ==
    /\ retailer.t = "str"
    /\ retailer.v # <<>>
    /\ \A i \in 1..Len(retailer.v) :
           retailer.v[i] \in Word \cup Space \cup {"-", "&"}

InvalidRetailerFormat == Raise("ValueError", "Invalid retailer name format", <<>>)

\* C11: for every candidate that holds the five required fields, a retailer
\* that is anything but a non-empty string of the allowed characters, a
\* number, a list or null included, makes validate_receipt fail with the
\* validation failure "Invalid retailer name format", never with another
\* exception.
C11_BadRetailerIsAValidationFailure ==
    (/\ HoldsTheFields(Body(candidate))
     /\ ~AllowedRetailer(Body(candidate).v["retailer"])
     /\ validation # NotRun) =>
        validation = InvalidRetailerFormat

(***************************************************************************)
(* Descriptions that str.strip() empties.                                  *)
(***************************************************************************)
DescriptionOf(item) == item.v["shortDescription"].v

Blank(item) == TrimmedLength(DescriptionOf(item)) = 0

ItemsOf(key) == Body(key).v["items"].v

\* the items, a description of three letters in the place of every blank one
Unblanked(items) ==
    [i \in 1..Len(items) |->
        IF Blank(items[i])
        THEN Item(JStr(<<"A", "B", "C">>), items[i].v["price"])
        ELSE items[i]]

\* the items whose description is not blank
NotBlank(item) == ~Blank(item)

Visible(items) == SelectSeq(items, NotBlank)

\* C12 as amended: every item description that validate_receipt accepts has
\* a length of at least 1, its trimmed length can be 0, and for a validated
\* receipt rule 5 counts a description of trimmed length 0 as a multiple of
\* 3: it awards for the item what it awards for a description of three
\* letters at the same price.
C12_BlankDescriptionsAreCounted ==
    Accepted =>
        /\ \A i \in 1..Len(ItemsOf(candidate)) :
               Len(DescriptionOf(ItemsOf(candidate)[i])) >= 1
        /\ _get_description_length_points(JList(ItemsOf(candidate)))
               = _get_description_length_points(JList(Unblanked(ItemsOf(candidate))))

\* C12 as stated: every item description that validate_receipt accepts has
\* a trimmed length of at least 1, so for a validated receipt rule 5 awards
\* nothing on account of a description of trimmed length 0.
C12_AcceptedDescriptionsAreVisible ==
    Accepted =>
        /\ \A i \in 1..Len(ItemsOf(candidate)) :
               TrimmedLength(DescriptionOf(ItemsOf(candidate)[i])) >= 1
        /\ _get_description_length_points(JList(ItemsOf(candidate)))
               = _get_description_length_points(JList(Visible(ItemsOf(candidate))))

\* a receipt with a blank description was validated and scored, and rule 5
\* awarded points for the blank description
C12_BlankDescriptionScored ==
    /\ Accepted
    /\ PointsAwarded
    /\ ~Raised(awarded)
    /\ \E i \in 1..Len(ItemsOf(candidate)) : Blank(ItemsOf(candidate)[i])
    /\ _get_description_length_points(JList(ItemsOf(candidate))).val
           > _get_description_length_points(JList(Visible(ItemsOf(candidate)))).val

=============================================================================
